---------------------------- MODULE Spec2Model ----------------------------
(***************************************************************************)
(* Model of bulk-mailer: the command line navigation loop                  *)
(* (lib/ui/commandline.py), the engine (lib/engine.py) and the registries  *)
(* (lib/server_connections.py, lib/recipients.py).                         *)
(*                                                                         *)
(* Python values are modelled as follows: None is the string "None",       *)
(* callables are named by their function name, bool False used as an       *)
(* encryption value is the string "False", lists and tuples are sequences, *)
(* dicts are functions.                                                    *)
(***************************************************************************)
EXTENDS Integers, Sequences, FiniteSets, TLC

VARIABLES
    command_stack,   \* CommandLine.command_stack
    next_command,    \* CommandLine.next_command
    current_command, \* the local current_command of the last loop iteration
    popped,          \* history: the last iteration took its command with pop()
    net_pushes,      \* history: number of append() minus number of pop() so far
    status,          \* "running", "exited" (exit()) or "crashed" (uncaught exception)
    exit_code,       \* process exit status once the process has ended, else -1
    error,           \* name of the uncaught exception, else "None"
    connections,     \* engine._SCL.connections
    active,          \* engine._SCL.active
    recipients,      \* engine._RL.recipients
    message,         \* engine._MSG
    screen,          \* what the last handler showed / what the last call returned
    dispatch,        \* outcome and transport log of the send_message call of the last step
    prompt,          \* the last call of a menu function, with the lines typed
    call             \* the last call made through the API of the engine or the list

nav_vars    == <<command_stack, next_command, current_command, popped, net_pushes,
                 status, exit_code, error>>
engine_vars == <<connections, active, recipients, message>>
out_vars    == <<screen, dispatch>>
vars        == <<nav_vars, engine_vars, out_vars, prompt, call>>

None == "None"

-----------------------------------------------------------------------------
(* Bounds of the model *)

MaxDepth == 4        \* command_stack is not grown beyond this depth
MaxTries == 2        \* lines typed at one prompt
MaxPortLines == 3    \* lines typed in one port dialog
MaxServers == 1      \* len(_SCL) reached through the UI / the engine API
MaxRecipients == 2   \* len(_RL)
MaxExtra == 1        \* further addresses entered for one recipient
MaxListLen == 3      \* len(connections) in the ServerConnectionList API runs

-----------------------------------------------------------------------------
(* Generic helpers *)

Min(a, b) == IF a < b THEN a ELSE b

SeqsUpTo(S, n) == UNION {[1..k -> S] : k \in 0..n}

Range(s) == {s[i] : i \in DOMAIN s}

RemoveAt(s, i) == [j \in 1..(Len(s) - 1) |-> IF j < i THEN s[j] ELSE s[j + 1]]

\* str(i) / f"{i}" for a non-negative int
Digit(d) == <<"0", "1", "2", "3", "4", "5", "6", "7", "8", "9">>[d + 1]

RECURSIVE IntToStr(_)
IntToStr(i) == IF i < 10 THEN Digit(i) ELSE IntToStr(i \div 10) \o Digit(i % 10)


-----------------------------------------------------------------------------
(* Console input.  A dialog is the finite sequence of lines the operator   *)
(* types at one prompt loop until the loop ends.                           *)

MenuLines == {"1", "2", "3", "4", "5", "6", "7", "8", "0", "01", "x", ""}

\* _is_int / int(s) on the strings the model types
IntStrings == {"1", "2", "3", "4", "5", "6", "7", "8", "0", "01", "25", "143", "-5"}

_is_int(s) == s \in IntStrings

ToInt(s) ==
    CASE s = "1" -> 1 [] s = "2" -> 2 [] s = "3" -> 3 [] s = "4" -> 4
      [] s = "5" -> 5 [] s = "6" -> 6 [] s = "7" -> 7 [] s = "8" -> 8
      [] s = "0" -> 0 [] s = "01" -> 1 [] s = "25" -> 25 [] s = "143" -> 143
      [] s = "-5" -> -5

\* dict lookup d[k]
Lookup(d, k) == IF k \in DOMAIN d THEN d[k] ELSE "KeyError"

\* the dict built by "for i, x in enumerate(items, 1): d[f"{i}"] = x"
EnumDict(items) ==
    [k \in {IntToStr(i) : i \in 1..Len(items)} |->
        items[CHOOSE i \in 1..Len(items) : IntToStr(i) = k]]

\* a prompt loop that repeats the prompt only for lines that are no integers
MenuRejects_NotInt(d, line) == ~_is_int(line)

\* "while choice not in actions": the prompt is repeated for this line
MenuRejects(d, line) == line \notin DOMAIN d

\* number of lines consumed by the prompt loop, 0 if the loop has not ended
\* within the typed lines
RECURSIVE PromptCount(_, _)
PromptCount(d, typed) ==
    IF typed = <<>> THEN 0
    ELSE IF ~MenuRejects(d, Head(typed)) THEN 1
    ELSE LET r == PromptCount(d, Tail(typed)) IN IF r = 0 THEN 0 ELSE r + 1

\* the dialogs that end the prompt loop with their last line: rejected
\* lines, then an accepted one
Dialogs(d) ==
    {Append(pre, k) :
        pre \in SeqsUpTo({l \in MenuLines : MenuRejects(d, l)}, MaxTries - 1),
        k \in {l \in MenuLines : ~MenuRejects(d, l)}}

\* zip(menu_options, menu_actions)
Zip(a, b) == [i \in 1..Min(Len(a), Len(b)) |-> <<a[i], b[i]>>]

\* _print_menu: the chosen action
_print_menu(menu_options, menu_actions, typed) ==
    LET pairs   == Zip(menu_options, menu_actions)
        actions == EnumDict([i \in 1..Len(pairs) |-> pairs[i][2]])
    IN  Lookup(actions, typed[PromptCount(actions, typed)])

\* _get_pseudo_bool_option: the value of the chosen option; options are
\* <<text, value>> pairs
_get_pseudo_bool_option(options, typed) ==
    LET values == EnumDict([i \in 1..Len(options) |-> options[i][2]])
    IN  Lookup(values, typed[PromptCount(values, typed)])

\* every result _print_menu can return for this menu
MenuResults(menu_options, menu_actions) ==
    {_print_menu(menu_options, menu_actions, t) :
        t \in Dialogs(EnumDict([i \in 1..Min(Len(menu_options), Len(menu_actions)) |->
                                   menu_actions[i]]))}

\* every value _get_pseudo_bool_option can return for these options
OptionResults(options) ==
    {_get_pseudo_bool_option(options, t) :
        t \in Dialogs(EnumDict([i \in 1..Len(options) |-> options[i][2]]))}

-----------------------------------------------------------------------------
(* lib/recipients.py *)

\* a constructor that drops the addresses it is given
Recipient_NoAddresses(name, email) == [name |-> name, addresses |-> <<>>]

\* Recipient(name, *email)
Recipient(name, email) == [name |-> name, addresses |-> email]

\* Recipient.add_address
add_address(r, address) == [r EXCEPT !.addresses = Append(@, address)]

\* Recipient.get_formatted: the tuple of 'name <address>' strings
get_formatted(r) ==
    [i \in 1..Len(r.addresses) |-> r.name \o " <" \o r.addresses[i] \o ">"]

\* RecipientsList.append
RL_append(rl, item) == Append(rl, item)

-----------------------------------------------------------------------------
(* lib/server_connections.py *)

\* Encryption members; the UI passes Python False for "no encryption"
Encryption == {"SSL", "STARTTLS"}

\* ServerConnection.__init__
ServerConnection(name, smtp_host, smtp_port, sender_name, sender_email, smtp_encryption, smtp_login, imap_host, imap_port, imap_encryption, imap_login, share_login) ==
    [name |-> name,
     smtp |-> [host |-> smtp_host, port |-> smtp_port,
               encryption |-> smtp_encryption, login |-> smtp_login,
               credentials |-> None],
     imap |-> [host |-> imap_host, port |-> imap_port,
               encryption |-> imap_encryption, login |-> imap_login,
               credentials |-> None],
     share_login |-> share_login,
     sender |-> Recipient(sender_name, <<sender_email>>)]

\* A ServerConnectionList is [connections, active]; indices are the code's
\* 0-based ints, entry i is connections[i + 1].
SCL_len(scl) == Len(scl.connections)

\* a delete that removes the entry and leaves the active index alone when
\* an earlier entry goes
SCL_delete_NoShift(scl, i) ==
    IF 0 <= i /\ i < Len(scl.connections)
    THEN [scl |-> [connections |-> RemoveAt(scl.connections, i + 1),
                   active |-> IF i = scl.active THEN -1 ELSE scl.active],
          raised |-> None,
          ret |-> <<scl.connections[i + 1]>>]
    ELSE [scl |-> scl, raised |-> "IndexError", ret |-> <<>>]

\* a delete that tests "i < len(self)" only, so that list.pop takes a
\* negative index from the end
SCL_delete_NoLowerBound(scl, i) ==
    IF i < SCL_len(scl) /\ i + SCL_len(scl) >= 0
    THEN LET k == IF i < 0 THEN i + SCL_len(scl) ELSE i
         IN  [scl |-> [connections |-> RemoveAt(scl.connections, k + 1), active |-> scl.active],
              raised |-> None,
              ret |-> <<scl.connections[k + 1]>>]
    ELSE [scl |-> scl, raised |-> "IndexError", ret |-> <<>>]

\* ServerConnectionList.delete: the new list and what the call returns
\* (<<item>>) or raises
SCL_delete(scl, i) ==
    IF 0 <= i /\ i < SCL_len(scl)
    THEN LET a1 == IF i = scl.active THEN -1 ELSE scl.active
             a2 == IF i < a1 THEN a1 - 1 ELSE a1
         IN  [scl |-> [connections |-> RemoveAt(scl.connections, i + 1), active |-> a2],
              raised |-> None,
              ret |-> <<scl.connections[i + 1]>>]
    ELSE [scl |-> scl, raised |-> "IndexError", ret |-> <<>>]

\* a set_active that takes any index
SCL_set_active_Unchecked(scl, i) == [scl |-> [scl EXCEPT !.active = i], ret |-> "True"]

\* ServerConnectionList.set_active
SCL_set_active(scl, i) ==
    IF 0 <= i /\ i < SCL_len(scl)
    THEN [scl |-> [scl EXCEPT !.active = i], ret |-> "True"]
    ELSE [scl |-> scl, ret |-> "False"]

\* an append that reads the length after the item was added
SCL_append_LenAfter(scl, new_item, as_active) ==
    [connections |-> Append(scl.connections, new_item),
     active |-> IF as_active = "True" THEN Len(scl.connections) + 1 ELSE scl.active]

\* ServerConnectionList.append
SCL_append(scl, new_item, as_active) ==
    [connections |-> Append(scl.connections, new_item),
     active |-> IF as_active = "True" THEN Len(scl.connections) ELSE scl.active]

\* ServerConnectionList.get_active (called by the engine and the UI, not
\* defined in server_connections.py): the active entry as <<entry>>, or <<>>
\* for None
SCL_get_active(scl) ==
    IF scl.active = -1 THEN <<>> ELSE <<scl.connections[scl.active + 1]>>

-----------------------------------------------------------------------------
(* email.message.EmailMessage as used by the engine: a sequence of         *)
(* <<name, value>> headers and a payload.                                  *)

EmailMessage == [headers |-> <<>>, payload |-> ""]

\* header names compare case-insensitively
Lower(n) ==
    CASE n \in {"From", "FROM", "from"} -> "from"
      [] n \in {"To", "TO", "to"} -> "to"
      [] OTHER -> n

HasHeader(msg, name) == \E i \in DOMAIN msg.headers : Lower(msg.headers[i][1]) = Lower(name)

\* del msg[name]: every header of that name is removed
DelHeader(msg, name) ==
    LET Keep(h) == Lower(h[1]) # Lower(name)
    IN  [msg EXCEPT !.headers = SelectSeq(@, Keep)]

\* msg.add_header(name, value)
add_header(msg, name, value) == [msg EXCEPT !.headers = Append(@, <<name, value>>)]

\* msg.set_charset("utf-8"): adds the MIME headers that are missing, then
\* encodes the payload when no Content-Transfer-Encoding is set. The payload
\* of a multipart message is a list of parts, which has no encode():
\* AttributeError leaves the call, after the headers were added.
set_charset(msg, multipart) ==
    LET m1 == IF HasHeader(msg, "MIME-Version") THEN msg
              ELSE add_header(msg, "MIME-Version", "1.0")
        m2 == IF HasHeader(m1, "Content-Type") THEN m1
              ELSE add_header(m1, "Content-Type", "text/plain; charset=utf-8")
    IN  IF HasHeader(m2, "Content-Transfer-Encoding")
        THEN [message |-> m2, raised |-> None]
        ELSE IF multipart
        THEN [message |-> m2, raised |-> "AttributeError"]
        ELSE [message |-> add_header(m2, "Content-Transfer-Encoding", "base64"),
              raised |-> None]

\* "rcpt_copy = _MSG": the same object under another name
deepcopy_Alias(msg) == [value |-> msg, shared |-> TRUE]

\* copy.deepcopy(msg): an object with equal content that shares nothing with
\* msg, so that what is done to it is not done to msg
deepcopy(msg) == [value |-> msg, shared |-> FALSE]

\* all values of the headers called name, in order
HeaderValues(msg, name) ==
    LET Is(h) == Lower(h[1]) = Lower(name)
        hs    == SelectSeq(msg.headers, Is)
    IN  [i \in 1..Len(hs) |-> hs[i][2]]

\* ", ".join(parts)
RECURSIVE Join(_)
Join(parts) ==
    IF Len(parts) = 0 THEN ""
    ELSE IF Len(parts) = 1 THEN parts[1]
    ELSE parts[1] \o ", " \o Join(Tail(parts))

\* Recipient.__str__
Recipient_str(r) == r.name \o " <" \o r.addresses[1] \o ">"

-----------------------------------------------------------------------------
(* The file system the loaders read *)

MessagePaths == {"missing.eml", "binary.bin", "mail.eml", "multipart.eml"}

MessageFile(path) ==
    CASE path = "missing.eml" ->
            [kind |-> "missing", multipart |-> FALSE, headers |-> <<>>, payload |-> ""]
      [] path = "binary.bin" ->
            [kind |-> "undecodable", multipart |-> FALSE, headers |-> <<>>, payload |-> ""]
      [] path = "mail.eml" ->
            [kind |-> "text", multipart |-> FALSE,
             headers |-> << <<"From", "Eve <eve@x>">>, <<"To", "Old <old@x>">>,
                            <<"Subject", "Hello">>, <<"to", "Older <older@x>">> >>,
             payload |-> "body"]
      [] path = "multipart.eml" ->
            [kind |-> "text", multipart |-> TRUE,
             headers |-> << <<"From", "Eve <eve@x>">>, <<"To", "Old <old@x>">>,
                            <<"MIME-Version", "1.0">>,
                            <<"Content-Type", "multipart/mixed; boundary=xx">> >>,
             payload |-> "parts"]

RecipientPaths == {"missing.txt", "binary.bin", "list.txt", "empty.txt"}

\* lines of a recipients file, already as email.utils.getaddresses returns
\* them: <<display name, address>> pairs
RecipientFile(path) ==
    CASE path = "missing.txt" -> [kind |-> "missing", data |-> <<>>]
      [] path = "binary.bin" -> [kind |-> "undecodable", data |-> <<>>]
      [] path = "list.txt" ->
            [kind |-> "text",
             data |-> << <<"Ann", "a@x">>, <<"Ann", "a2@x">>, <<"Bob", "b@x">> >>]
      [] path = "empty.txt" -> [kind |-> "text", data |-> <<>>]

-----------------------------------------------------------------------------
(* The SMTP transport (smtplib) as the engine sees it.  A behaviour fixes  *)
(* which step of a session fails, with which exception, and which          *)
(* addresses the server refuses.                                           *)

SMTPExceptions ==
    {"SMTPException", "SMTPServerDisconnected", "SMTPNotSupportedError",
     "SMTPAuthenticationError", "SMTPHeloError", "SMTPSenderRefused",
     "SMTPDataError", "SMTPRecipientsRefused"}

\* what each step of a session can raise
ConnectFailures  == {"OSError"}
StarttlsFailures == {"SMTPNotSupportedError", "SSLError"}
LoginFailures    == {"SMTPAuthenticationError", "SMTPHeloError", "SMTPNotSupportedError",
                     "SMTPException", "OSError"}
EhloFailures     == {"SMTPHeloError"}
SendFailures     == {"SMTPHeloError", "SMTPSenderRefused", "SMTPDataError",
                     "SMTPNotSupportedError", "SMTPServerDisconnected"}

Behaviour(step, exc, at, refuses) ==
    [fail_step |-> step, fail_exc |-> exc, fail_at |-> at, refuses |-> refuses]

\* every address in the registry
AddressesOf(rl) == UNION {Range(rl[i].addresses) : i \in DOMAIN rl}

\* the behaviours a session for the registry rl can meet
Behaviours(rl) ==
    {Behaviour("none", None, 0, r) : r \in SUBSET AddressesOf(rl)}
    \cup {Behaviour("connect", e, 0, {}) : e \in ConnectFailures}
    \cup {Behaviour("starttls", e, 0, {}) : e \in StarttlsFailures}
    \cup {Behaviour("login", e, 0, {}) : e \in LoginFailures}
    \cup {Behaviour("ehlo", e, 0, {}) : e \in EhloFailures}
    \cup UNION {{Behaviour("send", e, k, r) :
                    e \in SendFailures, r \in SUBSET AddressesOf(SubSeq(rl, 1, k - 1))} :
                k \in 1..Len(rl)}

\* an update that drops what the dict held
DictUpdate_Replace(d, new) == new

\* a dict keyed by address, as the sequence of its keys in insertion order;
\* d |= new: the keys of new that d has not got are added at the end
RECURSIVE DictUpdate(_, _)
DictUpdate(d, new) ==
    IF new = <<>> THEN d
    ELSE DictUpdate(IF Head(new) \in Range(d) THEN d ELSE Append(d, Head(new)), Tail(new))

\* one entry of the transport log
Ev(op, ok) == [op |-> op, ok |-> ok, msg |-> EmailMessage, rcpts |-> <<>>]

SendEv(ok, m, rcpts) == [op |-> "send", ok |-> ok, msg |-> m, rcpts |-> rcpts]

\* smtp.send_message(rcpt_copy) for the i-th recipient: the exception raised
\* (or None) and the refused addresses reported (returned dict / the
\* recipients of SMTPRecipientsRefused, raised when every address is refused)
smtp_send_message(b, i, recipient) ==
    LET to_addrs == Range(recipient.addresses)
        Refused(a) == a \in b.refuses
        bad      == DictUpdate(<<>>, SelectSeq(recipient.addresses, Refused))
    IN  IF b.fail_step = "send" /\ b.fail_at = i
        THEN [exc |-> b.fail_exc, refused |-> <<>>]
        ELSE IF Range(bad) = to_addrs
        THEN [exc |-> "SMTPRecipientsRefused", refused |-> bad]
        ELSE [exc |-> None, refused |-> bad]

-----------------------------------------------------------------------------
(* lib/engine.py *)

SendStatus ==
    {"OK", "SMTP_GENERIC_ERROR", "SMTP_MISSING_LOGIN_DATA", "SMTP_HELO",
     "SMTP_SENDER_REFUSED", "SMTP_RECIPIENT_REFUSED"}

\* the outcome of one send_message call: the exception that escaped it (or
\* None), the returned (status, detail) and the transport log
Returned(events, st, detail, refused) ==
    [raised |-> None, status |-> st, detail |-> detail, refused |-> refused, events |-> events]

Escaped(events, exc) ==
    [raised |-> exc, status |-> None, detail |-> "", refused |-> {}, events |-> events]

\* no send_message call was made
NoDispatch == [raised |-> None, status |-> None, detail |-> "", refused |-> {}, events |-> <<>>]

\* a copy addressed to the first address of the recipient only
RcptCopy_FirstAddress(msg, connection, recipient) ==
    add_header(add_header(deepcopy(msg).value, "From", Recipient_str(connection.sender)),
               "To", Recipient_str(recipient))

\* the copy built for one recipient
RcptCopy(msg, connection, recipient) ==
    add_header(add_header(deepcopy(msg).value, "From", Recipient_str(connection.sender)),
               "To", Join(get_formatted(recipient)))

\* headers added to the stored message itself, not to a copy of it
MsgAfterCopy_Shared(msg, connection, recipient) == RcptCopy(msg, connection, recipient)

\* _MSG after the copy for one recipient got its headers
MsgAfterCopy(msg, connection, recipient) ==
    IF deepcopy(msg).shared THEN RcptCopy(msg, connection, recipient) ELSE msg

\* _MSG after the loop built its first n copies
RECURSIVE MsgAfterCopies(_, _, _, _)
MsgAfterCopies(msg, connection, rl, n) ==
    IF n = 0 THEN msg
    ELSE MsgAfterCopies(MsgAfterCopy(msg, connection, Head(rl)), connection, Tail(rl), n - 1)

\* except clauses that go on to the next recipient when the sender is refused
SendHandler_SkipSenderRefused(exc) ==
    CASE exc \in {None, "SMTPRecipientsRefused", "SMTPSenderRefused"} -> "continue"
      [] exc = "SMTPHeloError" -> "SMTP_HELO"
      [] exc = "SMTPDataError" -> "SMTP_GENERIC_ERROR"
      [] exc = "SMTPNotSupportedError" -> "SMTP_GENERIC_ERROR"
      [] OTHER -> "raise"

\* except clauses that end the dispatch at the first recipient refused
SendHandler_AbortOnRefused(exc) ==
    CASE exc = None -> "continue"
      [] exc = "SMTPRecipientsRefused" -> "SMTP_RECIPIENT_REFUSED"
      [] exc = "SMTPHeloError" -> "SMTP_HELO"
      [] exc = "SMTPSenderRefused" -> "SMTP_SENDER_REFUSED"
      [] exc = "SMTPDataError" -> "SMTP_GENERIC_ERROR"
      [] exc = "SMTPNotSupportedError" -> "SMTP_GENERIC_ERROR"
      [] OTHER -> "raise"

\* the except clauses around smtp.send_message: what the loop does with
\* the exception exc ("continue", or the status it returns, or "raise")
SendHandler(exc) ==
    CASE exc = None -> "continue"
      [] exc = "SMTPRecipientsRefused" -> "continue"
      [] exc = "SMTPHeloError" -> "SMTP_HELO"
      [] exc = "SMTPSenderRefused" -> "SMTP_SENDER_REFUSED"
      [] exc = "SMTPDataError" -> "SMTP_GENERIC_ERROR"
      [] exc = "SMTPNotSupportedError" -> "SMTP_GENERIC_ERROR"
      [] OTHER -> "raise"

\* a handler with one except clause for every SMTP error of login
LoginHandler_OneClause(exc) ==
    IF exc \in SMTPExceptions THEN "SMTP_GENERIC_ERROR" ELSE "raise"

\* the except clauses around smtp.login
LoginHandler(exc) ==
    CASE exc = "SMTPAuthenticationError" -> "SMTP_GENERIC_ERROR"
      [] exc = "SMTPHeloError" -> "SMTP_HELO"
      [] exc \in SMTPExceptions -> "SMTP_GENERIC_ERROR"
      [] OTHER -> "raise"

\* str(refused): the keys in insertion order, each with the reply of the
\* server
str_refused(refused) ==
    "defaultdict(tuple[int, bytes], {"
        \o Join([k \in DOMAIN refused |-> "'" \o refused[k] \o "': (550, b'refused')"])
        \o "})"

\* the final return after the loop
LoopResult(events, refused) ==
    IF Len(refused) = 0
    THEN Returned(events, "OK", "", {})
    ELSE Returned(events, "SMTP_RECIPIENT_REFUSED", str_refused(refused), Range(refused))

\* for i, recipient in enumerate(_RL): ...
RECURSIVE RecipientLoop(_, _, _, _, _, _, _)
RecipientLoop(i, rl, msg, connection, b, events, refused) ==
    IF i > Len(rl) THEN LoopResult(events, refused)
    ELSE LET recipient == rl[i]
             rcpt_copy == RcptCopy(msg, connection, recipient)
             out       == smtp_send_message(b, i, recipient)
             todo      == SendHandler(out.exc)
             ev        == SendEv(out.exc \in {None, "SMTPRecipientsRefused"},
                                 rcpt_copy, recipient.addresses)
         IN  IF todo = "continue"
             THEN RecipientLoop(i + 1, rl, MsgAfterCopy(msg, connection, recipient),
                                connection, b, Append(events, ev),
                                DictUpdate(refused, out.refused))
             ELSE IF todo = "raise" THEN Escaped(Append(events, ev), out.exc)
             ELSE Returned(Append(events, ev), todo, "", {})

\* a greeting that logs in with whatever it was given
Greeting_NoCredentialCheck(connection, rl, msg, smtp_user, smtp_password, b, events) ==
    IF connection.smtp.login = "True"
    THEN RecipientLoop(1, rl, msg, connection, b, Append(events, Ev("login", TRUE)), <<>>)
    ELSE RecipientLoop(1, rl, msg, connection, b, Append(events, Ev("ehlo", TRUE)), <<>>)

\* a greeting that goes to the loop without the handshake when the profile
\* asks for no login
Greeting_SkipHandshake(connection, rl, msg, smtp_user, smtp_password, b, events) ==
    IF connection.smtp.login = "True"
    THEN IF smtp_user = None \/ smtp_password = None
         THEN Returned(events, "SMTP_MISSING_LOGIN_DATA", "", {})
         ELSE RecipientLoop(1, rl, msg, connection, b,
                            Append(events, Ev("login", TRUE)), <<>>)
    ELSE RecipientLoop(1, rl, msg, connection, b, events, <<>>)

\* the greeting: smtp.login when the profile asks for it, else
\* smtp.ehlo_or_helo_if_needed(); then the loop
Greeting(connection, rl, msg, smtp_user, smtp_password, b, events) ==
    IF connection.smtp.login = "True"
    THEN IF smtp_user = None \/ smtp_password = None
         THEN Returned(events, "SMTP_MISSING_LOGIN_DATA", "", {})
         ELSE IF b.fail_step = "login"
         THEN LET todo == LoginHandler(b.fail_exc)
                  evs  == Append(events, Ev("login", FALSE))
              IN  IF todo = "raise" THEN Escaped(evs, b.fail_exc)
                  ELSE Returned(evs, todo, "", {})
         ELSE RecipientLoop(1, rl, msg, connection, b,
                            Append(events, Ev("login", TRUE)), <<>>)
    ELSE IF b.fail_step = "ehlo"
         THEN Escaped(Append(events, Ev("ehlo", FALSE)), b.fail_exc)
         ELSE RecipientLoop(1, rl, msg, connection, b,
                            Append(events, Ev("ehlo", TRUE)), <<>>)

\* a body that goes on to the greeting without upgrading the transport
WithBody_NoUpgrade(connection, rl, msg, smtp_user, smtp_password, b, events) ==
    Greeting(connection, rl, msg, smtp_user, smtp_password, b, events)

\* the body of "with connection.get_smtp() as smtp"
WithBody(connection, rl, msg, smtp_user, smtp_password, b, events) ==
    IF connection.smtp.encryption = "STARTTLS"
    THEN IF b.fail_step = "starttls"
         THEN Escaped(Append(events, Ev("starttls", FALSE)), b.fail_exc)
         ELSE Greeting(connection, rl, msg, smtp_user, smtp_password, b,
                       Append(events, Ev("starttls", TRUE)))
    ELSE Greeting(connection, rl, msg, smtp_user, smtp_password, b, events)

\* connection.get_smtp() (not defined in server_connections.py): opens the
\* transport to the profile's SMTP server, or raises
get_smtp(connection, b) ==
    IF b.fail_step = "connect"
    THEN [opened |-> FALSE, raised |-> b.fail_exc]
    ELSE [opened |-> TRUE, raised |-> None]

\* a "with" that leaves the transport as it is
WithExit_LeaveOpen(r) == r

\* leaving "with ... as smtp:" by return or by exception closes the transport
WithExit(r) == [r EXCEPT !.events = Append(@, Ev("close", TRUE))]

\* engine.send_message
send_message(scl, rl, msg, smtp_user, smtp_password, b) ==
    LET connection == SCL_get_active(scl)
    IN  IF connection = <<>>
        THEN Escaped(<<>>, "AttributeError")
        ELSE LET smtp == get_smtp(connection[1], b)
             IN  IF ~smtp.opened
                 THEN Escaped(<<Ev("connect", FALSE)>>, smtp.raised)
                 ELSE WithExit(WithBody(connection[1], rl, msg, smtp_user,
                                        smtp_password, b, <<Ev("connect", TRUE)>>))

\* _MSG after the dispatch with outcome r: one copy was built for each send
\* in the transport log
MsgAfterDispatch(scl, rl, msg, r) ==
    LET IsSend(e) == e.op = "send"
    IN  IF SCL_get_active(scl) = <<>> THEN msg
        ELSE MsgAfterCopies(msg, SCL_get_active(scl)[1], rl, Len(SelectSeq(r.events, IsSend)))

\* engine.server_connections_add_new
server_connections_add_new(scl, new_entry, as_active) == SCL_append(scl, new_entry, as_active)

\* engine.recipients_add_new
recipients_add_new(rl, new_entry) == RL_append(rl, new_entry)

\* the map(...) object of recipients_load_file is built and dropped without
\* being iterated: its lambda never runs
DiscardedMap(rl, data) == rl

\* engine.recipients_load_file: the registry afterwards, the return value,
\* the exception that escaped
recipients_load_file(rl, path) ==
    LET f == RecipientFile(path)
    IN  CASE f.kind = "missing" -> [recipients |-> rl, ret |-> "False", raised |-> None]
          [] f.kind = "undecodable" ->
                [recipients |-> rl, ret |-> None, raised |-> "UnicodeDecodeError"]
          [] OTHER ->
                [recipients |-> DiscardedMap(rl, f.data), ret |-> None, raised |-> None]

\* a clear that leaves a placeholder entry behind
recipients_clear_Placeholder == <<Recipient("nobody", <<"nobody@x">>)>>

\* engine.recipients_clear
recipients_clear == <<>>

\* a loader that empties the stored message when the file cannot be opened
message_load_file_ClearOnFailure(msg, path) ==
    LET f == MessageFile(path)
        charset == set_charset([headers |-> f.headers, payload |-> f.payload], f.multipart)
    IN  CASE f.kind = "missing" ->
                [message |-> EmailMessage, ret |-> "False", raised |-> None]
          [] f.kind = "undecodable" ->
                [message |-> msg, ret |-> None, raised |-> "UnicodeDecodeError"]
          [] f.kind = "text" /\ charset.raised # None ->
                [message |-> charset.message, ret |-> None, raised |-> charset.raised]
          [] OTHER ->
                [message |-> DelHeader(DelHeader(charset.message, "From"), "To"),
                 ret |-> "True", raised |-> None]

\* engine.message_load_file: _MSG is assigned the parsed message before
\* set_charset and the two del statements run
message_load_file(msg, path) ==
    LET f == MessageFile(path)
        charset == set_charset([headers |-> f.headers, payload |-> f.payload], f.multipart)
    IN  CASE f.kind = "missing" -> [message |-> msg, ret |-> "False", raised |-> None]
          [] f.kind = "undecodable" ->
                [message |-> msg, ret |-> None, raised |-> "UnicodeDecodeError"]
          [] f.kind = "text" /\ charset.raised # None ->
                [message |-> charset.message, ret |-> None, raised |-> charset.raised]
          [] OTHER ->
                [message |-> DelHeader(DelHeader(charset.message, "From"), "To"),
                 ret |-> "True", raised |-> None]

\* engine.message_clear
message_clear == EmailMessage

\* truth value of a returned Python value
Truthy(v) == v = "True"

-----------------------------------------------------------------------------
(* lib/ui/commandline.py: the menus *)

main_menu_options ==
    <<"Manage Connections to mail servers", "Manage recipients list",
      "Manage email message", "Get current application status",
      "Send an email", "Reset the application", "Exit">>

main_menu_actions ==
    <<"server_manage", "recipient_manage", "message_manage", "status_get",
      "message_send", "reset", "die">>

server_manage_options ==
    <<"View existing server configurations", "Add new server configuration",
      "Back to Main Menu">>

\* a way back that names main_menu instead of returning None
server_manage_actions_BackIsMainMenu == <<"server_view_list", "server_add", "main_menu">>

server_manage_actions == <<"server_view_list", "server_add", None>>

recipient_manage_options ==
    <<"View list of recipients", "Add new recipient", "Load recipients from file",
      "Store recipients list into file", "Clear recipients list", "Back to Main Menu">>

recipient_manage_actions ==
    <<"recipient_view_list", "recipient_add", "recipient_load_file", None,
      "recipient_clear", None>>

message_manage_options ==
    <<"Write or modify a message here", "Load message from file",
      "Store message into file", "Clear message", "Back to Main Menu">>

message_manage_actions == <<None, "message_load", None, None, None>>

status_get_options == <<"Back to Main Menu">>

status_get_actions == <<None>>

reset_options == <<"Yes.", "No. Back to Main Menu.">>

reset_actions == <<None, None>>

\* what the fixed menus can return
main_menu_results == MenuResults(main_menu_options, main_menu_actions)

server_manage_results == MenuResults(server_manage_options, server_manage_actions)

recipient_manage_results == MenuResults(recipient_manage_options, recipient_manage_actions)

message_manage_results == MenuResults(message_manage_options, message_manage_actions)

status_get_results == MenuResults(status_get_options, status_get_actions)

\* message_load builds its menu from the result of the load
message_load_options(loaded) ==
    IF loaded THEN <<"Back to mail message management">>
    ELSE <<"Retry", "Back to mail message management">>

message_load_actions(loaded) ==
    IF loaded THEN <<None>> ELSE <<"message_load", None>>

message_load_results ==
    [loaded \in BOOLEAN |->
        MenuResults(message_load_options(loaded), message_load_actions(loaded))]

recipient_load_file_options == <<"Back to recipients management">>

recipient_load_file_actions == <<None>>

recipient_load_file_results ==
    MenuResults(recipient_load_file_options, recipient_load_file_actions)

\* server_view_list: one entry per server, then the way back
server_view_list_options(scl) ==
    [i \in 1..(SCL_len(scl) + 1) |->
        IF i = SCL_len(scl) + 1 THEN "Back to server connections management"
        ELSE (IF SCL_get_active(scl) # <<>> /\ i - 1 = scl.active
              THEN "[Active] " ELSE "") \o scl.connections[i].name]

server_view_list_actions(scl) == [i \in 1..(SCL_len(scl) + 1) |-> None]

\* recipient_view_list: str(recipient) per entry, then the way back
recipient_view_list_options(rl) ==
    [i \in 1..(Len(rl) + 1) |->
        IF i = Len(rl) + 1 THEN "Back to recipients management"
        ELSE Recipient_str(rl[i])]

recipient_view_list_actions(rl) == [i \in 1..(Len(rl) + 1) |-> None]

\* the option lists of the questions
EncryptionOptions ==
    << <<"No.", "False">>, <<"Yes, with SSL.", "SSL">>, <<"Yes, with STARTTLS.", "STARTTLS">> >>

YesNoOptions == << <<"Yes.", "True">>, <<"No.", "False">> >>

AnotherRecipientOptions == << <<"Yes.", "recipient_add">>, <<"No.", "lambda">> >>

-----------------------------------------------------------------------------
(* lib/ui/commandline.py: CommandLine.init, the navigation loop *)

\* a selection that reads the top of the stack and leaves it there
Select_Peek(next, stack) ==
    IF next = None
    THEN IF Len(stack) = 0
         THEN [cmd |-> "main_menu", stack |-> stack, popped |-> FALSE]
         ELSE [cmd |-> stack[Len(stack)], stack |-> stack, popped |-> TRUE]
    ELSE [cmd |-> next, stack |-> stack, popped |-> FALSE]

\* "Chose the correct command to be the next current one": the command,
\* the stack afterwards, and whether pop() was called
Select(next, stack) ==
    IF next = None
    THEN IF Len(stack) = 0
         THEN [cmd |-> "main_menu", stack |-> stack, popped |-> FALSE]
         ELSE [cmd |-> stack[Len(stack)],
               stack |-> SubSeq(stack, 1, Len(stack) - 1), popped |-> TRUE]
    ELSE [cmd |-> next, stack |-> stack, popped |-> FALSE]

\* a loop that saves the current command whatever it returned
Push_Always(stack, cmd, result) == Append(stack, cmd)

\* "if self.next_command is not None: self.command_stack.append(...)"
Push(stack, cmd, result) == IF result # None THEN Append(stack, cmd) ELSE stack

Screen(text, options) == [text |-> text, options |-> options]

\* special_text of the two loading screens: f"Loading file {path} ...\n\t",
\* what came of it, "\n"
LoadingText(path, outcome) == "Loading file " \o path \o " ...\n\t" \o outcome \o "\n"

\* one loop iteration in which the command h returns r
Returns(h, r) ==
    LET sel == Select(next_command, command_stack)
    IN  /\ status = "running"
        /\ sel.cmd = h
        /\ Len(Push(sel.stack, h, r)) <= MaxDepth
        /\ current_command' = h
        /\ popped' = sel.popped
        /\ next_command' = r
        /\ command_stack' = Push(sel.stack, h, r)
        /\ net_pushes' = net_pushes - (IF sel.popped THEN 1 ELSE 0)
                                    + (IF Push(sel.stack, h, r) # sel.stack THEN 1 ELSE 0)
        /\ UNCHANGED <<status, exit_code, error, prompt, call>>

\* one loop iteration in which an exception escapes the command h: init has
\* no handler, the interpreter ends with a traceback and status 1
Raises(h, exc) ==
    LET sel == Select(next_command, command_stack)
    IN  /\ status = "running"
        /\ sel.cmd = h
        /\ current_command' = h
        /\ popped' = sel.popped
        /\ command_stack' = sel.stack
        /\ net_pushes' = net_pushes - (IF sel.popped THEN 1 ELSE 0)
        /\ status' = "crashed"
        /\ exit_code' = 1
        /\ error' = exc
        /\ UNCHANGED <<next_command, prompt, call>>

\* one loop iteration in which the command h calls exit(code)
Exits(h, code) ==
    LET sel == Select(next_command, command_stack)
    IN  /\ status = "running"
        /\ sel.cmd = h
        /\ current_command' = h
        /\ popped' = sel.popped
        /\ command_stack' = sel.stack
        /\ net_pushes' = net_pushes - (IF sel.popped THEN 1 ELSE 0)
        /\ status' = "exited"
        /\ exit_code' = code
        /\ UNCHANGED <<next_command, error, prompt, call>>

-----------------------------------------------------------------------------
(* lib/ui/commandline.py: the dialogs of server_add and recipient_add *)

HostInputs == {" ", "smtp.example"}

ImapHostInputs == {"", "imap.example"}

SenderInputs == {"", "Sender"}

SenderEmailInputs == {"", "sender@x"}

ConfigNameInputs == {"", "cfg"}

PortLines == {"25", "0", "-5", "x", "", "y", "Y", "n"}

\* str.strip() == ""
IsBlank(str) == str \in {"", " "}

\* str.casefold()
casefold(str) == IF str = "Y" THEN "y" ELSE str

\* every integer taken as a port
PortAccepted_AnyInt(out) == TRUE

\* "out > 0"
PortAccepted(out) == out > 0

\* _get_port on the typed lines: port is <<n>>, or <<>> for None; done is
\* FALSE while the dialog still waits for a line; used counts the lines read
RECURSIVE _get_port(_)
_get_port(typed) ==
    IF Len(typed) = 0 THEN [done |-> FALSE, port |-> <<>>, used |-> 0]
    ELSE IF _is_int(typed[1]) /\ PortAccepted(ToInt(typed[1]))
    THEN [done |-> TRUE, port |-> <<ToInt(typed[1])>>, used |-> 1]
    ELSE IF Len(typed) = 1 THEN [done |-> FALSE, port |-> <<>>, used |-> 1]
    ELSE IF casefold(typed[2]) # "y"
    THEN [done |-> TRUE, port |-> <<>>, used |-> 2]
    ELSE LET r == _get_port(SubSeq(typed, 3, Len(typed)))
         IN  [r EXCEPT !.used = @ + 2]

\* the complete port dialogs
PortDialogs ==
    {t \in SeqsUpTo(PortLines, MaxPortLines) : _get_port(t).done /\ _get_port(t).used = Len(t)}

PortResults == {_get_port(t).port : t \in PortDialogs}

EncryptionAnswers == OptionResults(EncryptionOptions)

YesNoAnswers == OptionResults(YesNoOptions)

\* the answers given to the IMAP questions
ImapEncryptionAnswers == {"False"}

ImapLoginAnswers == {"True"}

ShareLoginAnswers == {"True"}

\* the default name f"Server Config {time.time()}"
DefaultConfigName == "Server Config <time>"

\* "num_steps = 11"
num_steps == 11

\* _step_base(i): the text every step of server_add starts with
_step_base(i, n) ==
    "You are currently creating a new mail server connection configuration.\nStep "
        \o IntToStr(i) \o " of " \o IntToStr(n) \o "\n"

\* an early return that hands what it has to the engine
ServerAddAborted_Stored(i, n) ==
    [entry |-> <<ServerConnection(DefaultConfigName, "", 0, "", "", "False", "False",
                                  "", 0, "False", "False", "False"), "False">>,
     current_step |-> i, num_steps |-> n]

\* what one call of server_add comes to: the step shown last and its
\* count of steps, and the arguments <<new_entry, active>> of its call of the
\* engine, <<>> when a step returned early
ServerAddAborted(i, n) == [entry |-> <<>>, current_step |-> i, num_steps |-> n]

\* server_add, last steps: the sender, the configuration name, the
\* question whether the new entry becomes the active one, and the call of
\* the engine
ServerAddFinish(smtp_host, smtp_port, smtp_encryption, smtp_login, imap_host, imap_port, imap_encryption, imap_login, share_login) ==
    LET n == IF smtp_login = "True" /\ imap_login = "True" THEN num_steps + 1 ELSE num_steps
    IN  UNION {
        IF IsBlank(sender_name) \/ IsBlank(sender_email) THEN {ServerAddAborted(n - 2, n)}
        ELSE {[entry |-> <<ServerConnection(IF IsBlank(name) THEN DefaultConfigName ELSE name,
                    smtp_host, smtp_port, sender_name, sender_email, smtp_encryption,
                    smtp_login, imap_host, imap_port, imap_encryption, imap_login,
                    share_login),
                as_active>>,
               current_step |-> n, num_steps |-> n] :
                name \in ConfigNameInputs, as_active \in YesNoAnswers}
        : sender_name \in SenderInputs, sender_email \in SenderEmailInputs}

\* server_add, IMAP steps
ServerAddImap(smtp_host, smtp_port, smtp_encryption, smtp_login) ==
    UNION {
        IF IsBlank(imap_host) THEN {ServerAddAborted(5, num_steps)}
        ELSE UNION {
            IF imap_port = <<>> THEN {ServerAddAborted(6, num_steps)}
            ELSE UNION {
                ServerAddFinish(smtp_host, smtp_port, smtp_encryption, smtp_login,
                    imap_host, imap_port[1], imap_encryption, imap_login,
                    IF smtp_login = "True" /\ imap_login = "True"
                    THEN share_answer ELSE "False")
                : imap_encryption \in ImapEncryptionAnswers,
                  imap_login \in ImapLoginAnswers,
                  share_answer \in ShareLoginAnswers}
            : imap_port \in PortResults}
        : imap_host \in ImapHostInputs}

\* server_add: every outcome of one call, over the answers of the operator;
\* each step that gets a blank host, a declined port or a blank sender
\* returns at once.  The function returns None in every case.
ServerAdd ==
    UNION {
        IF IsBlank(smtp_host) THEN {ServerAddAborted(1, num_steps)}
        ELSE UNION {
            IF smtp_port = <<>> THEN {ServerAddAborted(2, num_steps)}
            ELSE UNION {
                ServerAddImap(smtp_host, smtp_port[1], smtp_encryption, smtp_login)
                : smtp_encryption \in EncryptionAnswers, smtp_login \in YesNoAnswers}
            : smtp_port \in PortResults}
        : smtp_host \in HostInputs}

NameInputs == {"", "Ann"}

AddressInputs == {"", "a@x"}

ExtraAddressInputs == {"", "a2@x"}

\* the "while more" loop of recipient_add: the recipients it can leave,
\* having asked at most k more addresses
RECURSIVE MoreAddresses(_, _)
MoreAddresses(r, k) ==
    {r} \cup
    (IF k = 0 THEN {}
     ELSE UNION {MoreAddresses(add_address(r, a), k - 1) :
                    a \in {x \in ExtraAddressInputs : ~IsBlank(x)}})

\* recipient_add: the registries one call can leave (the call may call
\* itself when the operator asks for another recipient)
RECURSIVE RecipientAdd(_)
RecipientAdd(rl) ==
    {rl} \cup
    (IF Len(rl) >= MaxRecipients THEN {}
     ELSE UNION {RecipientAdd(recipients_add_new(rl, r)) :
                    r \in UNION {MoreAddresses(Recipient(n, <<a>>), MaxExtra) :
                                    n \in {x \in NameInputs : ~IsBlank(x)},
                                    a \in {x \in AddressInputs : ~IsBlank(x)}}})

-----------------------------------------------------------------------------
(* The interactive program: one action per command of the navigation graph. *)
(* Each action is one iteration of CommandLine.init running that command.   *)

SCL == [connections |-> connections, active |-> active]

NoPrompt ==
    [fn |-> None, options |-> <<>>, values |-> <<>>, typed |-> <<>>, used |-> 0,
     result |-> None]

\* a call record: the operation, its arguments (those it has), what it
\* returned and what it raised
NoCall ==
    [op |-> None, i |-> -1, as_active |-> None, item |-> <<>>, user |-> None,
     password |-> None, path |-> None, transport |-> Behaviour("none", None, 0, {}),
     ret |-> None, taken |-> <<>>, raised |-> None]

InitProgram ==
    /\ command_stack = <<>>
    /\ next_command = None
    /\ current_command = None
    /\ popped = FALSE
    /\ net_pushes = 0
    /\ status = "running"
    /\ exit_code = -1
    /\ error = None
    /\ connections = <<>>
    /\ active = -1
    /\ recipients = <<>>
    /\ message = EmailMessage
    /\ screen = Screen("", <<>>)
    /\ dispatch = NoDispatch
    /\ call = NoCall

Init ==
    /\ InitProgram
    /\ prompt = NoPrompt

main_menu ==
    /\ \E r \in main_menu_results :
            Returns("main_menu", r)
    /\ screen' = Screen("main menu", main_menu_options)
    /\ dispatch' = NoDispatch
    /\ UNCHANGED engine_vars

server_manage ==
    /\ \E r \in server_manage_results :
            Returns("server_manage", r)
    /\ screen' = Screen("mail server connection management", server_manage_options)
    /\ dispatch' = NoDispatch
    /\ UNCHANGED engine_vars

server_view_list ==
    /\ \E r \in MenuResults(server_view_list_options(SCL), server_view_list_actions(SCL)) :
            Returns("server_view_list", r)
    /\ screen' = Screen("server connections list", server_view_list_options(SCL))
    /\ dispatch' = NoDispatch
    /\ UNCHANGED engine_vars

server_add ==
    /\ \E out \in ServerAdd :
          LET scl == IF out.entry = <<>> THEN SCL
                     ELSE server_connections_add_new(SCL, out.entry[1], out.entry[2])
          IN  /\ SCL_len(scl) <= MaxServers
              /\ connections' = scl.connections
              /\ active' = scl.active
              /\ screen' = Screen(_step_base(out.current_step, out.num_steps), <<>>)
    /\ Returns("server_add", None)
    /\ dispatch' = NoDispatch
    /\ UNCHANGED <<recipients, message>>

recipient_manage ==
    /\ \E r \in recipient_manage_results :
            Returns("recipient_manage", r)
    /\ screen' = Screen("mail recipients management", recipient_manage_options)
    /\ dispatch' = NoDispatch
    /\ UNCHANGED engine_vars

recipient_view_list ==
    /\ \E r \in MenuResults(recipient_view_list_options(recipients),
                            recipient_view_list_actions(recipients)) :
            Returns("recipient_view_list", r)
    /\ screen' = Screen("recipients list", recipient_view_list_options(recipients))
    /\ dispatch' = NoDispatch
    /\ UNCHANGED engine_vars

recipient_add ==
    /\ \E rl \in RecipientAdd(recipients) : recipients' = rl
    /\ Returns("recipient_add", None)
    /\ screen' = Screen("recipient_add", <<>>)
    /\ dispatch' = NoDispatch
    /\ UNCHANGED <<connections, active, message>>

recipient_load_file ==
    /\ \E path \in RecipientPaths :
          LET r == recipients_load_file(recipients, path)
          IN  /\ recipients' = r.recipients
              /\ IF r.raised # None
                 THEN /\ Raises("recipient_load_file", r.raised)
                      /\ screen' = Screen("", <<>>)
                 ELSE /\ \E c \in recipient_load_file_results :
                            Returns("recipient_load_file", c)
                      /\ screen' = Screen(LoadingText(path,
                                          IF Truthy(r.ret)
                                          THEN "Recipients were successfully loaded!"
                                          ELSE "Something went wrong. Please return to management menu to retry."),
                                          recipient_load_file_options)
    /\ dispatch' = NoDispatch
    /\ UNCHANGED <<connections, active, message>>

recipient_clear ==
    /\ recipients' = recipients_clear
    /\ Returns("recipient_clear", None)
    /\ screen' = Screen("recipient_clear", <<>>)
    /\ dispatch' = NoDispatch
    /\ UNCHANGED <<connections, active, message>>

message_manage ==
    /\ \E r \in message_manage_results :
            Returns("message_manage", r)
    /\ screen' = Screen("mail message setup", message_manage_options)
    /\ dispatch' = NoDispatch
    /\ UNCHANGED engine_vars

message_load ==
    /\ \E path \in MessagePaths :
          LET r == message_load_file(message, path)
          IN  /\ message' = r.message
              /\ IF r.raised # None
                 THEN /\ Raises("message_load", r.raised)
                      /\ screen' = Screen("", <<>>)
                 ELSE /\ \E c \in message_load_results[Truthy(r.ret)] :
                            Returns("message_load", c)
                      /\ screen' = Screen(LoadingText(path,
                                          IF Truthy(r.ret)
                                          THEN "Message was successfully loaded!"
                                          ELSE "Something went wrong."),
                                          message_load_options(Truthy(r.ret)))
    /\ dispatch' = NoDispatch
    /\ UNCHANGED <<connections, active, recipients>>

status_get ==
    /\ \E r \in status_get_results :
            Returns("status_get", r)
    /\ screen' = Screen("Welcome to the status page.", status_get_options)
    /\ dispatch' = NoDispatch
    /\ UNCHANGED engine_vars

\* the credentials the operator types when the profile asks for a login
UserInputs == {"user"}

PasswordInputs == {"secret"}

\* a _message_send_2 that calls the engine without looking for an active
\* connection
_message_send_2_NoCheck(scl, rl, msg, user, password, b) ==
    LET r == send_message(scl, rl, msg, user, password, b)
    IN  [text |-> r.status, sent |-> r]

\* message_send._message_send_2: what is shown, and the outcome of the
\* engine call, if one is made
_message_send_2(scl, rl, msg, user, password, b) ==
    LET server_connection == SCL_get_active(scl)
    IN  IF server_connection = <<>>
        THEN [text |-> "There is no active server connection!", sent |-> NoDispatch]
        ELSE LET login == server_connection[1].smtp.login = "True"
                 r     == send_message(scl, rl, msg,
                                       IF login THEN user ELSE None,
                                       IF login THEN password ELSE None, b)
             IN  [text |-> r.status, sent |-> r]

message_send ==
    /\ \E choice \in {"1", "2"} :
          IF choice = "2"
          THEN /\ Returns("message_send", None)
               /\ screen' = Screen("Are you sure you want to send this email?", <<>>)
               /\ dispatch' = NoDispatch
               /\ message' = message
          ELSE \E user \in UserInputs, password \in PasswordInputs,
                  b \in Behaviours(recipients) :
                  LET r == _message_send_2(SCL, recipients, message, user, password, b)
                  IN  /\ dispatch' = r.sent
                      /\ message' = MsgAfterDispatch(SCL, recipients, message, r.sent)
                      /\ IF r.sent.raised # None
                         THEN /\ Raises("message_send", r.sent.raised)
                              /\ screen' = Screen("Establishing connection ...", <<>>)
                         ELSE /\ Returns("message_send", None)
                              /\ screen' = Screen(r.text, <<>>)
    /\ UNCHANGED <<connections, active, recipients>>

\* the screen keeps the option the operator chose
reset ==
    /\ \E k \in DOMAIN reset_options :
          /\ Returns("reset", reset_actions[k])
          /\ screen' = [text |-> "Are you sure you want to delete everything within this application?",
                        options |-> reset_options, chosen |-> reset_options[k]]
    /\ dispatch' = NoDispatch
    /\ UNCHANGED engine_vars

\* engine.die
die ==
    /\ Exits("die", 0)
    /\ screen' = Screen("", <<>>)
    /\ dispatch' = NoDispatch
    /\ UNCHANGED engine_vars

Next ==
    \/ main_menu
    \/ server_manage
    \/ server_view_list
    \/ server_add
    \/ recipient_manage
    \/ recipient_view_list
    \/ recipient_add
    \/ recipient_load_file
    \/ recipient_clear
    \/ message_manage
    \/ message_load
    \/ status_get
    \/ message_send
    \/ reset
    \/ die

Spec == Init /\ [][Next]_vars

-----------------------------------------------------------------------------
(* The menu functions on their own: one call of _print_menu or of          *)
(* _get_pseudo_bool_option per step, with the lines the operator types.    *)

\* the (options, actions) tables the commands hand to _print_menu
MenuTables ==
    {<<main_menu_options, main_menu_actions>>,
     <<server_manage_options, server_manage_actions>>,
     <<recipient_manage_options, recipient_manage_actions>>,
     <<message_manage_options, message_manage_actions>>,
     <<status_get_options, status_get_actions>>,
     <<reset_options, reset_actions>>,
     <<recipient_load_file_options, recipient_load_file_actions>>,
     <<message_load_options(TRUE), message_load_actions(TRUE)>>,
     <<message_load_options(FALSE), message_load_actions(FALSE)>>}

\* the option tables handed to _get_pseudo_bool_option
OptionTables == {EncryptionOptions, YesNoOptions, AnotherRecipientOptions}

\* the lines waiting on the console when a menu function is called
TypedLines == SeqsUpTo(MenuLines, MaxTries) \ {<<>>}

\* the call has not been made yet
NotCalled == "not called"

\* the function has not returned: it waits for another line
Prompting == "prompting"

\* the calls to make: the function, its tables and the lines typed
PendingCalls ==
    {[fn |-> "_print_menu", options |-> m[1], values |-> m[2], typed |-> typed,
      used |-> 0, result |-> NotCalled] : m \in MenuTables, typed \in TypedLines}
    \cup
    {[fn |-> "_get_pseudo_bool_option", options |-> [i \in DOMAIN o |-> o[i][1]],
      values |-> [i \in DOMAIN o |-> o[i][2]], typed |-> typed,
      used |-> 0, result |-> NotCalled] : o \in OptionTables, typed \in TypedLines}

InitMenu ==
    /\ InitProgram
    /\ prompt \in PendingCalls

PrintMenuCall ==
    /\ prompt.fn = "_print_menu"
    /\ prompt.result = NotCalled
    /\ LET used == PromptCount(EnumDict(Zip(prompt.options, prompt.values)), prompt.typed)
       IN  prompt' = [prompt EXCEPT
                        !.used = used,
                        !.result = IF used = 0 THEN Prompting
                                   ELSE _print_menu(prompt.options, prompt.values, prompt.typed)]
    /\ UNCHANGED <<nav_vars, engine_vars, out_vars, call>>

PseudoBoolCall ==
    /\ prompt.fn = "_get_pseudo_bool_option"
    /\ prompt.result = NotCalled
    /\ LET options == Zip(prompt.options, prompt.values)
           used    == PromptCount(EnumDict(options), prompt.typed)
       IN  prompt' = [prompt EXCEPT
                        !.used = used,
                        !.result = IF used = 0 THEN Prompting
                                   ELSE _get_pseudo_bool_option(options, prompt.typed)]
    /\ UNCHANGED <<nav_vars, engine_vars, out_vars, call>>

NextMenu ==
    \/ PrintMenuCall
    \/ PseudoBoolCall

SpecMenu == InitMenu /\ [][NextMenu]_vars

-----------------------------------------------------------------------------
(* ServerConnectionList on its own: one call of append, set_active or      *)
(* delete per step, with valid and invalid indices.                        *)

\* the profiles handed to append
ListProfile(name) ==
    ServerConnection(name, "smtp.example", 25, "Sender", "sender@x", "False", "False", "imap.example", 143, "False", "False", "False")

ListProfiles == {ListProfile(n) : n \in {"p1", "p2", "p3"}}

\* the indices handed to set_active and delete
ListIndices == (0 - 2) .. (MaxListLen + 1)

append ==
    /\ Len(connections) < MaxListLen
    /\ \E new_item \in ListProfiles, as_active \in {"True", "False"} :
          LET scl == SCL_append(SCL, new_item, as_active)
          IN  /\ connections' = scl.connections
              /\ active' = scl.active
              /\ call' = [NoCall EXCEPT !.op = "append", !.item = <<new_item>>,
                                        !.as_active = as_active]
    /\ UNCHANGED <<nav_vars, recipients, message, out_vars, prompt>>

set_active ==
    /\ \E i \in ListIndices :
          LET r == SCL_set_active(SCL, i)
          IN  /\ connections' = r.scl.connections
              /\ active' = r.scl.active
              /\ call' = [NoCall EXCEPT !.op = "set_active", !.i = i, !.ret = r.ret]
    /\ UNCHANGED <<nav_vars, recipients, message, out_vars, prompt>>

delete ==
    /\ \E i \in ListIndices :
          LET r == SCL_delete(SCL, i)
          IN  /\ connections' = r.scl.connections
              /\ active' = r.scl.active
              /\ call' = [NoCall EXCEPT !.op = "delete", !.i = i, !.taken = r.ret,
                                        !.raised = r.raised]
    /\ UNCHANGED <<nav_vars, recipients, message, out_vars, prompt>>

NextList ==
    \/ append
    \/ set_active
    \/ delete

SpecList == Init /\ [][NextList]_vars

-----------------------------------------------------------------------------
(* The engine on its own: one call of its API per step.                    *)

\* the profiles handed to server_connections_add_new
EngineProfiles ==
    {ServerConnection("cfg", "smtp.example", 25, "Sender", "sender@x", e, l, "imap.example", 143, "False", "True", "False") :
        e \in {"False"} \cup Encryption, l \in {"True", "False"}}

\* the recipients handed to recipients_add_new
EngineRecipients == {Recipient("Ann", <<"a@x", "a2@x">>), Recipient("Bob", <<"b@x">>)}

\* the values handed as smtp_user and smtp_password
CredentialInputs == {None, "user"}

\* An exception that left an engine function is caught nowhere in the
\* program (init runs the commands without an except clause), so the process
\* ends with it: no engine call follows one that raised.
EngineAlive == call.raised = None

engine_server_connections_add_new ==
    /\ EngineAlive
    /\ Len(connections) < MaxServers
    /\ \E new_entry \in EngineProfiles, as_active \in {"True", "False"} :
          LET scl == server_connections_add_new(SCL, new_entry, as_active)
          IN  /\ connections' = scl.connections
              /\ active' = scl.active
              /\ call' = [NoCall EXCEPT !.op = "server_connections_add_new",
                                        !.item = <<new_entry>>, !.as_active = as_active]
    /\ dispatch' = NoDispatch
    /\ UNCHANGED <<nav_vars, recipients, message, screen, prompt>>

engine_recipients_add_new ==
    /\ EngineAlive
    /\ Len(recipients) < MaxRecipients
    /\ \E new_entry \in EngineRecipients :
          /\ recipients' = recipients_add_new(recipients, new_entry)
          /\ call' = [NoCall EXCEPT !.op = "recipients_add_new", !.item = <<new_entry>>]
    /\ dispatch' = NoDispatch
    /\ UNCHANGED <<nav_vars, connections, active, message, screen, prompt>>

engine_recipients_load_file ==
    /\ EngineAlive
    /\ \E path \in RecipientPaths :
          LET r == recipients_load_file(recipients, path)
          IN  /\ recipients' = r.recipients
              /\ call' = [NoCall EXCEPT !.op = "recipients_load_file", !.path = path,
                                        !.ret = r.ret, !.raised = r.raised]
    /\ dispatch' = NoDispatch
    /\ UNCHANGED <<nav_vars, connections, active, message, screen, prompt>>

engine_recipients_clear ==
    /\ EngineAlive
    /\ recipients' = recipients_clear
    /\ call' = [NoCall EXCEPT !.op = "recipients_clear"]
    /\ dispatch' = NoDispatch
    /\ UNCHANGED <<nav_vars, connections, active, message, screen, prompt>>

engine_message_load_file ==
    /\ EngineAlive
    /\ \E path \in MessagePaths :
          LET r == message_load_file(message, path)
          IN  /\ message' = r.message
              /\ call' = [NoCall EXCEPT !.op = "message_load_file", !.path = path,
                                        !.ret = r.ret, !.raised = r.raised]
    /\ dispatch' = NoDispatch
    /\ UNCHANGED <<nav_vars, connections, active, recipients, screen, prompt>>

engine_message_clear ==
    /\ EngineAlive
    /\ message' = message_clear
    /\ call' = [NoCall EXCEPT !.op = "message_clear"]
    /\ dispatch' = NoDispatch
    /\ UNCHANGED <<nav_vars, connections, active, recipients, screen, prompt>>

engine_send_message ==
    /\ EngineAlive
    /\ \E smtp_user \in CredentialInputs, smtp_password \in CredentialInputs,
          b \in Behaviours(recipients) :
          LET r == send_message(SCL, recipients, message, smtp_user, smtp_password, b)
          IN  /\ dispatch' = r
              /\ message' = MsgAfterDispatch(SCL, recipients, message, r)
              /\ call' = [NoCall EXCEPT !.op = "send_message", !.user = smtp_user,
                                        !.password = smtp_password, !.transport = b,
                                        !.ret = r.status, !.raised = r.raised]
    /\ UNCHANGED <<nav_vars, connections, active, recipients, screen, prompt>>

NextEngine ==
    \/ engine_server_connections_add_new
    \/ engine_recipients_add_new
    \/ engine_recipients_load_file
    \/ engine_recipients_clear
    \/ engine_message_load_file
    \/ engine_message_clear
    \/ engine_send_message

SpecEngine == Init /\ [][NextEngine]_vars

-----------------------------------------------------------------------------

(* The navigation loop: claims C1 to C4, checked under Spec. *)

\* C1: the depth of command_stack always equals the number of pushes minus
\* the number of pops made so far (which is never negative), and a loop
\* iteration that starts with an empty stack and no pending command runs
\* main_menu without calling pop, so that no IndexError is raised.
C1_StackDepth ==
    /\ [](Len(command_stack) = net_pushes /\ net_pushes >= 0)
    /\ [][(next_command = None /\ command_stack = <<>>) =>
            (current_command' = "main_menu" /\ ~popped' /\ error' # "IndexError")]_vars

\* a state reached by pushes and pops: server_manage was popped, ran again
\* and was pushed back
C1_Witness ==
    /\ popped
    /\ current_command = "server_manage"
    /\ net_pushes = 2
    /\ command_stack = <<"main_menu", "server_manage">>

\* the stack a loop iteration starts its push from, written from the rule
\* of the claim
C2_Base ==
    IF next_command = None /\ command_stack # <<>>
    THEN SubSeq(command_stack, 1, Len(command_stack) - 1)
    ELSE command_stack

\* C2: in every loop iteration, the command executed is the pending one if
\* there is one, else the most recently pushed one (which leaves the stack),
\* else main_menu; and when the iteration ends, the executed command has been
\* pushed if and only if it returned a command.
C2_TransitionRule ==
    [][/\ next_command # None => current_command' = next_command /\ ~popped'
       /\ next_command = None /\ command_stack # <<>> =>
              current_command' = command_stack[Len(command_stack)] /\ popped'
       /\ next_command = None /\ command_stack = <<>> =>
              current_command' = "main_menu" /\ ~popped'
       /\ status' = "running" /\ next_command' # None =>
              command_stack' = Append(C2_Base, current_command')
       /\ status' = "running" /\ next_command' = None =>
              command_stack' = C2_Base]_vars

\* message_manage was popped, ran, returned message_load and was pushed
C2_Witness ==
    /\ popped
    /\ current_command = "message_manage"
    /\ next_command = "message_load"
    /\ command_stack = <<"main_menu", "message_manage">>

\* the level of a command in the menu hierarchy: main_menu is the root, its
\* entries are one level below, every other command two levels
Level(cmd) ==
    IF cmd = "main_menu" THEN 0
    ELSE IF cmd \in Range(main_menu_actions) THEN 1
    ELSE 2

\* C3: when a command is about to run, the depth of the stack equals the
\* level of that command below the root, and main_menu run with no pending
\* command has an empty stack.  (Violated: "Retry" makes message_load push
\* itself.)
C3_DepthIsLevel ==
    status = "running" =>
        LET sel == Select(next_command, command_stack)
        IN  /\ Len(sel.stack) = Level(sel.cmd)
            /\ (sel.cmd = "main_menu" /\ next_command = None) => sel.stack = <<>>

\* C4: the session is over only after engine.die, with status 0.
\* (Violated: an exception that escapes a command ends init.)
C4_OnlyDieEnds ==
    status # "running" =>
        /\ status = "exited"
        /\ exit_code = 0
        /\ current_command = "die"

-----------------------------------------------------------------------------
(* The menu functions: claim C5, checked under SpecMenu. *)

\* the line is one of the numbers 1..n offered by the menu
C5_Offered(line, n) == \E i \in 1..n : line = IntToStr(i)

-----------------------------------------------------------------------------
(* ServerConnectionList: claims C6 and C7, checked under SpecList. *)

\* C6: after any sequence of append, set_active and delete calls, with
\* valid or invalid arguments, active is -1 or a valid index of connections.
C6_ActiveValid ==
    active = -1 \/ (0 <= active /\ active < Len(connections))

\* set_active was called with an invalid index and said so, and an entry is
\* still active
C6_Witness ==
    /\ call.op = "set_active"
    /\ call.i \notin 0..(Len(connections) - 1)
    /\ call.ret = "False"
    /\ active = 1

\* C7: delete(i) with a valid index i removes exactly the entry at i and
\* keeps the order of the others; active goes down by one and points at the
\* same profile if i < active, becomes -1 if i = active, and is unchanged if
\* i > active (which covers active = -1).
C7_DeleteKeepsActive ==
    [][(call'.op = "delete" /\ 0 <= call'.i /\ call'.i < Len(connections)) =>
        LET i == call'.i
        IN  /\ call'.raised = None
            /\ call'.taken = <<connections[i + 1]>>
            /\ Len(connections') = Len(connections) - 1
            /\ \A j \in 1..Len(connections') :
                  connections'[j] = IF j < i + 1 THEN connections[j] ELSE connections[j + 1]
            /\ i < active =>
                  /\ active' = active - 1
                  /\ connections'[active' + 1] = connections[active + 1]
            /\ i = active => active' = -1
            /\ i > active => active' = active]_vars

\* the first of two entries was deleted while the second was active: the
\* active index went from 1 to 0 and still names the entry "p2"
C7_Witness ==
    /\ call.op = "delete"
    /\ call.i = 0
    /\ call.taken = <<ListProfile("p1")>>
    /\ connections = <<ListProfile("p2")>>
    /\ active = 0

-----------------------------------------------------------------------------
(* The dispatch: claim C8, checked under Spec, and claims C9 and C10,      *)
(* checked under SpecEngine.                                               *)

NoActiveText == "There is no active server connection!"

\* C8: while no profile is active, a dispatch the operator asks for ends
\* with the "no active server connection" message, which is no SendStatus
\* member, without a call of the engine and so without any transport event,
\* and the session goes on; and a direct call of send_message in that state,
\* whatever the credentials and the transport, returns no SendStatus member
\* and fails before any transport event.
C8_NoActiveConnection ==
    active = -1 =>
        /\ current_command = "message_send" =>
              /\ status = "running"
              /\ dispatch = NoDispatch
              /\ screen.text \in {NoActiveText, "Are you sure you want to send this email?"}
              /\ NoActiveText \notin SendStatus
        /\ \A u \in CredentialInputs, p \in CredentialInputs, b \in Behaviours(recipients) :
              LET r == send_message(SCL, recipients, message, u, p, b)
              IN  /\ r.status \notin SendStatus
                  /\ r.raised # None
                  /\ r.events = <<>>

\* the operator asked for a dispatch to a non-empty registry with no active
\* profile
C8_Witness ==
    /\ active = -1
    /\ current_command = "message_send"
    /\ screen.text = NoActiveText
    /\ recipients # <<>>
    /\ dispatch.events = <<>>

\* the last call was send_message, the active profile asks for a login and
\* the user name or the password is None
C9_Case ==
    /\ call.op = "send_message"
    /\ active # -1
    /\ connections[active + 1].smtp.login = "True"
    /\ (call.user = None \/ call.password = None)

\* the outcome of C9: SMTP_MISSING_LOGIN_DATA is returned, and the transport
\* log has neither a login nor a send
C9_Outcome ==
    /\ dispatch.raised = None
    /\ dispatch.status = "SMTP_MISSING_LOGIN_DATA"
    /\ \A k \in DOMAIN dispatch.events : dispatch.events[k].op \notin {"login", "send"}

C10_Sends ==
    SelectSeq(dispatch.events, LAMBDA e : e.op = "send")

\* C10: in a dispatch that gets to the recipient loop (an active profile,
\* credentials if login is required, no failing step) where the transport
\* refuses exactly the addresses of one recipient of the registry, there is
\* one send per recipient of the registry, in order, the outcome is
\* SMTP_RECIPIENT_REFUSED, and the keys of the refused map are exactly the
\* refused addresses.
C10_RefusalsDoNotAbort ==
    (/\ call.op = "send_message"
     /\ active # -1
     /\ connections[active + 1].smtp.login = "True" =>
            (call.user # None /\ call.password # None)
     /\ call.transport.fail_step = "none"
     /\ \E k \in DOMAIN recipients :
            call.transport.refuses = Range(recipients[k].addresses))
    =>
        /\ Len(C10_Sends) = Len(recipients)
        /\ \A i \in DOMAIN recipients : C10_Sends[i].rcpts = recipients[i].addresses
        /\ dispatch.raised = None
        /\ dispatch.status = "SMTP_RECIPIENT_REFUSED"
        /\ dispatch.refused = call.transport.refuses

\* the first of two different recipients was refused, and the second was
\* still sent to
C10_Witness ==
    /\ call.op = "send_message"
    /\ Len(recipients) = 2
    /\ recipients[1] # recipients[2]
    /\ call.transport.refuses = Range(recipients[1].addresses)
    /\ Len(C10_Sends) = 2
    /\ dispatch.status = "SMTP_RECIPIENT_REFUSED"

-----------------------------------------------------------------------------
(* The dispatch: claims C11 to C15, checked under SpecEngine. *)

\* the last call was send_message, with an active profile and with
\* credentials if the profile asks for a login
C11_Dispatched ==
    /\ call.op = "send_message"
    /\ active # -1
    /\ connections[active + 1].smtp.login = "True" =>
            (call.user # None /\ call.password # None)

\* every address of the registry, in registry order
RECURSIVE C11_Flat(_)
C11_Flat(rl) == IF rl = <<>> THEN <<>> ELSE Head(rl).addresses \o C11_Flat(Tail(rl))

\* the addresses of the sequence that are in the set, each once, in order of
\* first appearance
RECURSIVE C11_FirstOf(_, _, _)
C11_FirstOf(addrs, set, seen) ==
    IF addrs = <<>> THEN <<>>
    ELSE IF Head(addrs) \in set /\ Head(addrs) \notin seen
    THEN <<Head(addrs)>> \o C11_FirstOf(Tail(addrs), set, seen \cup {Head(addrs)})
    ELSE C11_FirstOf(Tail(addrs), set, seen)

\* C11: when no step of a dispatch fails, so that the recipient loop runs to
\* its end, the outcome is OK (with an empty detail) exactly if the transport
\* refused no address of the registry, the empty registry included;
\* otherwise it is SMTP_RECIPIENT_REFUSED and the detail is the serialized
\* map of all refused addresses of all recipients.
C11_LoopOutcome ==
    (C11_Dispatched /\ call.transport.fail_step = "none") =>
        LET keys == C11_FirstOf(C11_Flat(recipients), call.transport.refuses, {})
        IN  /\ dispatch.raised = None
            /\ dispatch.status = "OK" <=> AddressesOf(recipients) \cap call.transport.refuses = {}
            /\ keys = <<>> => dispatch.status = "OK" /\ dispatch.detail = ""
            /\ keys # <<>> =>
                  /\ dispatch.status = "SMTP_RECIPIENT_REFUSED"
                  /\ dispatch.refused = Range(keys)
                  /\ dispatch.detail = str_refused(keys)

\* one address of each of two recipients was refused, and both are in the
\* detail
C11_Witness ==
    /\ C11_Dispatched
    /\ Len(recipients) = 2
    /\ call.transport.fail_step = "none"
    /\ call.transport.refuses = {"a2@x", "b@x"}
    /\ dispatch.refused = {"a2@x", "b@x"}
    /\ dispatch.status = "SMTP_RECIPIENT_REFUSED"

\* the outcome the claim gives for a failure of a send
C12_Outcome(exc) ==
    CASE exc = "SMTPHeloError" -> "SMTP_HELO"
      [] exc = "SMTPSenderRefused" -> "SMTP_SENDER_REFUSED"
      [] exc = "SMTPDataError" -> "SMTP_GENERIC_ERROR"
      [] exc = "SMTPNotSupportedError" -> "SMTP_GENERIC_ERROR"

\* C12: when the send to recipient k fails with a handshake failure, a
\* refused sender, a data error or an unsupported operation, the dispatch
\* ends there: the sends made are those to recipients 1..k in order and no
\* other, and the outcome is SMTP_HELO, SMTP_SENDER_REFUSED,
\* SMTP_GENERIC_ERROR, SMTP_GENERIC_ERROR respectively, whatever addresses
\* were refused for the recipients before k.
C12_AbortAtFailure ==
    (/\ C11_Dispatched
     /\ call.transport.fail_step = "send"
     /\ call.transport.fail_exc \in
            {"SMTPHeloError", "SMTPSenderRefused", "SMTPDataError", "SMTPNotSupportedError"})
    =>
        LET k == call.transport.fail_at
        IN  /\ Len(C10_Sends) = k
            /\ \A i \in 1..k : C10_Sends[i].rcpts = recipients[i].addresses
            /\ dispatch.raised = None
            /\ dispatch.status = C12_Outcome(call.transport.fail_exc)

\* the sender was refused at the first of two recipients: one send, none to
\* the second
C12_Witness ==
    /\ C11_Dispatched
    /\ Len(recipients) = 2
    /\ call.transport.fail_step = "send"
    /\ call.transport.fail_exc = "SMTPSenderRefused"
    /\ call.transport.fail_at = 1
    /\ Len(C10_Sends) = 1
    /\ dispatch.status = "SMTP_SENDER_REFUSED"

\* C13: whatever step of a dispatch fails, send_message returns a
\* SendStatus member and no exception leaves it.  (Violated: failures of
\* opening the transport, of the STARTTLS upgrade, of ehlo_or_helo_if_needed,
\* and those of login and send that no except clause names, leave
\* send_message as exceptions.)
C13_ClassificationTotal ==
    C11_Dispatched =>
        /\ dispatch.raised = None
        /\ dispatch.status \in SendStatus

\* C14: a dispatch with an active profile opens the transport exactly once,
\* as its first step; if the transport was opened it is closed exactly once,
\* as the last step, whether send_message returns or an exception leaves it.
C14_TransportClosed ==
    (call.op = "send_message" /\ active # -1) =>
        LET ev == dispatch.events
            Opens  == {k \in DOMAIN ev : ev[k].op = "connect"}
            Closes == {k \in DOMAIN ev : ev[k].op = "close"}
        IN  /\ Opens = {1}
            /\ ev[1].ok => Closes = {Len(ev)} /\ Len(ev) > 1
            /\ ~ev[1].ok => Closes = {}

\* a dispatch that ended with a refused sender at the second recipient has
\* closed its transport
C14_Witness ==
    /\ call.op = "send_message"
    /\ active # -1
    /\ dispatch.status = "SMTP_SENDER_REFUSED"
    /\ Len(C10_Sends) = 2
    /\ dispatch.events[Len(dispatch.events)].op = "close"

\* the transport of the last dispatch met no failure and refused nobody
C15_TransportSucceeds ==
    /\ call.transport.fail_step = "none"
    /\ call.transport.refuses = {}

\* C15: every send_message call over a transport that always succeeds
\* returns OK, the one that follows another such call included, and each
\* call leaves the recipient registry and the current message as they were
\* before it.
C15_Repeatable ==
    /\ []((C11_Dispatched /\ C15_TransportSucceeds) => dispatch.status = "OK")
    /\ [][call'.op = "send_message" =>
            /\ recipients' = recipients
            /\ message' = message
            /\ connections' = connections
            /\ active' = active]_vars

\* a loaded message went to two recipients and is still the one loaded
C15_Witness ==
    /\ C11_Dispatched
    /\ C15_TransportSucceeds
    /\ Len(recipients) = 2
    /\ Len(C10_Sends) = 2
    /\ dispatch.status = "OK"
    /\ message = message_load_file(EmailMessage, "mail.eml").message

-----------------------------------------------------------------------------
(* loading a recipients file *)

\* the recipients_load_file call that has just returned read a text file
C16_Loaded ==
    /\ call.op = "recipients_load_file"
    /\ call.raised = None
    /\ RecipientFile(call.path).kind = "text"

\* the addresses the file lists under a display name, in file order
C16_AddressesOf(data, name) ==
    LET Named(q) == q[1] = name
        listed == SelectSeq(data, Named)
    IN  [k \in DOMAIN listed |-> listed[k][2]]

\* one Recipient per distinct display name of the file, in order of first
\* appearance
C16_Grouped(data) ==
    LET names == [k \in DOMAIN data |-> data[k][1]]
        first == DictUpdate(<<>>, names)
    IN  [k \in DOMAIN first |-> Recipient(first[k], C16_AddressesOf(data, first[k]))]

\* C16: after a recipients file was loaded the registry ends with one
\* Recipient per distinct display name of the file, in order of first
\* appearance of the names, each holding the addresses listed under its name
\* in file order.
C16_GroupedByName ==
    C16_Loaded =>
        LET g == C16_Grouped(RecipientFile(call.path).data)
            n == Len(recipients)
        IN  /\ n >= Len(g)
            /\ SubSeq(recipients, n - Len(g) + 1, n) = g

\* C17: recipients_load_file returns False exactly when the file cannot be
\* opened and leaves the registry as it was then; for every file that was
\* opened, one without entries included, it returns True.
C17_ReportsOutcome ==
    /\ [](call.op = "recipients_load_file" =>
            /\ call.raised = None
            /\ (call.ret = "False") <=> (RecipientFile(call.path).kind = "missing")
            /\ RecipientFile(call.path).kind # "missing" => call.ret = "True")
    /\ [][(call'.op = "recipients_load_file" /\ call'.ret = "False")
            => recipients' = recipients]_vars

-----------------------------------------------------------------------------
(* the recipient registry *)

\* s is an initial segment of t
C18_IsPrefix(s, t) == Len(s) <= Len(t) /\ SubSeq(t, 1, Len(s)) = s

\* C18: every Recipient of the registry has at least one address, and a
\* Recipient that stays in the registry keeps its addresses in place: its
\* list changes only by addresses appended at its end.
C18_AddressesOnlyGrow ==
    /\ [](\A i \in DOMAIN recipients : Len(recipients[i].addresses) >= 1)
    /\ [][\A i \in DOMAIN recipients :
            i \in DOMAIN recipients' =>
                /\ recipients'[i].name = recipients[i].name
                /\ C18_IsPrefix(recipients[i].addresses, recipients'[i].addresses)]_vars

\* the registry holds two recipients, the first with a second address
\* appended by add_address
C18_Witness ==
    /\ Len(recipients) = 2
    /\ Len(recipients[1].addresses) = 2
    /\ Len(recipients[2].addresses) = 1

-----------------------------------------------------------------------------
(* the stored message *)

\* C19: the stored current message carries no From header and no To header,
\* whatever message_load_file, message_clear and send_message calls were made.
C19_NoFromNoTo ==
    /\ ~HasHeader(message, "From")
    /\ ~HasHeader(message, "To")

-----------------------------------------------------------------------------
(* the STARTTLS upgrade *)

\* a dispatch over the active profile opened its transport
C20_Opened ==
    /\ call.op = "send_message"
    /\ active # -1
    /\ Len(dispatch.events) >= 1
    /\ dispatch.events[1] = Ev("connect", TRUE)

\* the positions of the events of one kind in the last dispatch
C20_At(op) == {k \in DOMAIN dispatch.events : dispatch.events[k].op = op}

\* C20: with an active STARTTLS profile the upgrade is the step that follows
\* the opening of the transport, so it comes before every login and every
\* send; with any other encryption the dispatch has no upgrade step.
C20_UpgradeFirst ==
    C20_Opened =>
        IF connections[active + 1].smtp.encryption = "STARTTLS"
        THEN /\ C20_At("starttls") = {2}
             /\ \A k \in C20_At("login") \cup C20_At("send") : k > 2
        ELSE C20_At("starttls") = {}

\* a STARTTLS dispatch upgraded, logged in and sent
C20_Witness ==
    /\ C20_Opened
    /\ connections[active + 1].smtp.encryption = "STARTTLS"
    /\ dispatch.events[2] = Ev("starttls", TRUE)
    /\ C20_At("login") = {3}
    /\ C20_At("send") # {}
    /\ dispatch.status = "OK"

-----------------------------------------------------------------------------
(* the greeting *)

\* the greeting step the active profile asks for, completed
C21_Greeted ==
    IF connections[active + 1].smtp.login = "True"
    THEN Ev("login", TRUE) ELSE Ev("ehlo", TRUE)

\* C21: in a dispatch with a send, the step right before the first send is
\* the completed greeting of the profile (login when it requires login, the
\* EHLO/HELO handshake otherwise), and a dispatch that returned from the
\* recipient loop without a send has completed it as well.
C21_GreetingBeforeSend ==
    (call.op = "send_message" /\ active # -1) =>
        LET ev    == dispatch.events
            sends == C20_At("send")
            first == CHOOSE k \in sends : \A j \in sends : k <= j
        IN  /\ sends # {} => (first > 1 /\ ev[first - 1] = C21_Greeted)
            /\ dispatch.status \in {"OK", "SMTP_RECIPIENT_REFUSED"} =>
                  \E k \in DOMAIN ev : ev[k] = C21_Greeted

\* a profile without login sent to two recipients after the handshake
C21_Witness ==
    /\ call.op = "send_message"
    /\ active # -1
    /\ connections[active + 1].smtp.login # "True"
    /\ Len(C10_Sends) = 2
    /\ \E k \in DOMAIN dispatch.events :
          /\ dispatch.events[k] = Ev("ehlo", TRUE)
          /\ dispatch.events[k + 1].op = "send"

-----------------------------------------------------------------------------
(* the per-recipient sends *)

\* the To header value that names every address of a recipient
C22_To(r) == Join(get_formatted(r))

\* C22: a dispatch that no connection-level failure ended has one send per
\* recipient of the registry, in registry order: the i-th send carries one
\* To header naming all addresses of the i-th recipient and goes to them.
C22_OneSendPerRecipient ==
    (call.op = "send_message" /\ dispatch.status \in {"OK", "SMTP_RECIPIENT_REFUSED"}) =>
        /\ Len(C10_Sends) = Len(recipients)
        /\ \A i \in DOMAIN recipients :
              /\ HeaderValues(C10_Sends[i].msg, "To") = <<C22_To(recipients[i])>>
              /\ C10_Sends[i].rcpts = recipients[i].addresses

\* two recipients, the first with two addresses, got one send each
C22_Witness ==
    /\ call.op = "send_message"
    /\ dispatch.status \in {"OK", "SMTP_RECIPIENT_REFUSED"}
    /\ Len(recipients) = 2
    /\ Len(recipients[1].addresses) = 2
    /\ Len(C10_Sends) = 2
    /\ C10_Sends[1].rcpts = <<"a@x", "a2@x">>

\* C23: every message handed to the transport is the stored message plus
\* exactly one From header, the sender of the active profile, and exactly one
\* To header, the addresses of the recipient it is sent to; nothing of an
\* earlier recipient or an earlier dispatch is in it.
C23_IndependentCopies ==
    (call.op = "send_message" /\ active # -1) =>
        \A i \in DOMAIN C10_Sends :
            LET m == C10_Sends[i].msg
            IN  /\ HeaderValues(m, "From") = <<Recipient_str(connections[active + 1].sender)>>
                /\ HeaderValues(m, "To") = <<C22_To(recipients[i])>>
                /\ Len(m.headers) = Len(message.headers) + 2
                /\ SubSeq(m.headers, 1, Len(message.headers)) = message.headers
                /\ m.payload = message.payload

\* the second recipient of a dispatch got a message with its own To header
C23_Witness ==
    /\ call.op = "send_message"
    /\ Len(C10_Sends) = 2
    /\ HeaderValues(C10_Sends[2].msg, "To") = <<C22_To(recipients[2])>>
    /\ recipients[1] # recipients[2]
    /\ message.headers # <<>>

\* a login with credentials that the server answered with an SMTP error
C24_LoginFailed ==
    /\ C11_Dispatched
    /\ connections[active + 1].smtp.login = "True"
    /\ call.transport.fail_step = "login"
    /\ call.transport.fail_exc \in SMTPExceptions
    /\ dispatch.events[Len(dispatch.events) - 1] = Ev("login", FALSE)

-----------------------------------------------------------------------------
(* The port prompts: server_add._get_port of the menu UI and get_int of
   bulk-mailer.py, each applied to the lines of one complete dialog. *)

\* get_int on the typed lines: number is <<n>>, or <<>> when none was
\* returned; raised is the exception that left it
RECURSIVE get_int(_)
get_int(typed) ==
    IF Len(typed) = 0
    THEN [done |-> FALSE, number |-> <<>>, raised |-> None, used |-> 0]
    ELSE IF _is_int(typed[1])
    THEN [done |-> TRUE, number |-> <<ToInt(typed[1])>>, raised |-> None, used |-> 1]
    ELSE IF Len(typed) = 1
    THEN [done |-> FALSE, number |-> <<>>, raised |-> None, used |-> 1]
    ELSE IF casefold(typed[2]) = casefold("y")
    THEN LET r == get_int(SubSeq(typed, 3, Len(typed)))
         IN  [r EXCEPT !.used = @ + 2]
    ELSE [done |-> TRUE, number |-> <<>>, raised |-> "OSError", used |-> 2]

\* the complete get_int dialogs
IntDialogs ==
    {t \in SeqsUpTo(PortLines, MaxPortLines) : get_int(t).done /\ get_int(t).used = Len(t)}

InitPort ==
    /\ InitProgram
    /\ \/ \E t \in PortDialogs : prompt = [NoPrompt EXCEPT !.fn = "_get_port", !.typed = t]
       \/ \E t \in IntDialogs : prompt = [NoPrompt EXCEPT !.fn = "get_int", !.typed = t]

\* smtp_port = _get_port("SMTP")
GetPortCall ==
    /\ prompt.fn = "_get_port"
    /\ call.op = None
    /\ LET r == _get_port(prompt.typed)
       IN  /\ call' = [NoCall EXCEPT !.op = "_get_port", !.taken = r.port]
           /\ prompt' = [prompt EXCEPT !.used = r.used]
    /\ UNCHANGED <<nav_vars, engine_vars, out_vars>>

\* port = get_int(input_text="SMTP server port ", ...)
GetIntCall ==
    /\ prompt.fn = "get_int"
    /\ call.op = None
    /\ LET r == get_int(prompt.typed)
       IN  /\ call' = [NoCall EXCEPT !.op = "get_int", !.taken = r.number,
                                     !.raised = r.raised]
           /\ prompt' = [prompt EXCEPT !.used = r.used]
    /\ UNCHANGED <<nav_vars, engine_vars, out_vars>>

NextPort ==
    \/ GetPortCall
    \/ GetIntCall

SpecPort == InitPort /\ [][NextPort]_vars

\* a typed line that is no port number: no integer, or one not above 0
C25_Malformed(line) == ~(_is_int(line) /\ ToInt(line) > 0)

\* C25: a port prompt that has ended raised nothing; it returned a port
\* above 0, the line typed last, or it returned no port after the operator
\* answered the retry question with something other than y; every malformed
\* line before that was followed by the retry question.
C25_PortPromptRecovers ==
    call.op \in {"_get_port", "get_int"} =>
        LET typed == prompt.typed
            n     == Len(typed)
        IN  /\ call.raised = None
            /\ prompt.used = n
            /\ \A k \in 1..n : (k % 2 = 1 /\ k < n) => C25_Malformed(typed[k])
            /\ IF call.taken # <<>>
               THEN /\ n % 2 = 1
                    /\ ~C25_Malformed(typed[n])
                    /\ call.taken[1] = ToInt(typed[n])
                    /\ call.taken[1] > 0
               ELSE /\ n % 2 = 0
                    /\ casefold(typed[n]) # "y"

-----------------------------------------------------------------------------
(* files that cannot be opened *)

\* the screen of message_load after message_load_file("missing.eml")
C26_MessageFailure ==
    /\ current_command = "message_load"
    /\ screen.text = LoadingText("missing.eml", "Something went wrong.")

\* the screen of recipient_load_file after recipients_load_file("missing.txt")
C26_RecipientsFailure ==
    /\ current_command = "recipient_load_file"
    /\ screen.text = LoadingText("missing.txt",
                        "Something went wrong. Please return to management menu to retry.")

\* C26: a file that cannot be opened makes either loader return False, which
\* the UI shows as a failure; the step leaves the current message and the
\* recipient registry as they were, the loop keeps running, and the screen
\* offers the way to retry: the option "Retry" that runs message_load again,
\* or the way back to the recipients management menu that the text names.
C26_OpenFailureNotFatal ==
    /\ message_load_file(message, "missing.eml").ret = "False"
    /\ recipients_load_file(recipients, "missing.txt").ret = "False"
    /\ [](C26_MessageFailure =>
            /\ status = "running"
            /\ screen.options = <<"Retry", "Back to mail message management">>
            /\ next_command \in {"message_load", None})
    /\ [](C26_RecipientsFailure =>
            /\ status = "running"
            /\ screen.options = <<"Back to recipients management">>
            /\ next_command = None)
    /\ [][(C26_MessageFailure' \/ C26_RecipientsFailure') =>
            /\ message' = message
            /\ recipients' = recipients]_vars

\* a message was loaded, then a file that does not exist was asked for: the
\* loaded message is still there and Retry was chosen
C26_Witness ==
    /\ C26_MessageFailure
    /\ message = message_load_file(EmailMessage, "mail.eml").message
    /\ recipients # <<>>
    /\ next_command = "message_load"
    /\ status = "running"

-----------------------------------------------------------------------------
(* the profiles server_add builds *)

\* C27: every ServerConnection of the server list has an SMTP host that is
\* not blank, an integer SMTP port above 0 and an SMTP encryption that is
\* False (none), Encryption.SSL or Encryption.STARTTLS.
C27_ProfilesWellFormed ==
    \A k \in DOMAIN connections :
        /\ ~IsBlank(connections[k].smtp.host)
        /\ connections[k].smtp.port \in Int
        /\ connections[k].smtp.port > 0
        /\ connections[k].smtp.encryption \in {"False"} \cup Encryption

\* server_add has just put a STARTTLS profile into the list
C27_Witness ==
    /\ current_command = "server_add"
    /\ Len(connections) = 1
    /\ connections[1].smtp.encryption = "STARTTLS"
    /\ connections[1].smtp.port = 25
    /\ connections[1].smtp.host = "smtp.example"

-----------------------------------------------------------------------------
(* "Reset the application" *)

\* the operator answered the question of reset with "Yes."
C28_Confirmed ==
    /\ current_command = "reset"
    /\ screen.chosen = "Yes."

\* C28: once the operator has confirmed the reset with "Yes.", the server
\* list is empty with active = -1, the recipient registry is empty and the
\* current message is a fresh empty message.
C28_ResetClearsContext ==
    C28_Confirmed =>
        /\ connections = <<>>
        /\ active = -1
        /\ recipients = <<>>
        /\ message = EmailMessage

-----------------------------------------------------------------------------
(* ServerConnectionList: indices out of range, and append *)

\* i is an index of the list before the call
C29_InRange(i) == 0 <= i /\ i < Len(connections)

\* C29: set_active(i) returns True and makes i the active index when i is
\* an index of the list, and returns False otherwise; delete(i) with i
\* outside the list raises IndexError; the rejected calls leave the list and
\* active as they were, and set_active never changes the list.
C29_OutOfRangeRejected ==
    [][/\ call'.op = "set_active" =>
            /\ connections' = connections
            /\ IF C29_InRange(call'.i)
               THEN call'.ret = "True" /\ active' = call'.i
               ELSE call'.ret = "False" /\ active' = active
       /\ (call'.op = "delete" /\ ~C29_InRange(call'.i)) =>
            /\ call'.raised = "IndexError"
            /\ call'.taken = <<>>
            /\ connections' = connections
            /\ active' = active]_vars

\* delete(-1) on a list of two with the second active was refused
C29_Witness ==
    /\ call.op = "delete"
    /\ call.i = -1
    /\ call.raised = "IndexError"
    /\ Len(connections) = 2
    /\ active = 1

\* C30: append(item, as_active) puts item at the end and keeps the entries
\* before it in place; active becomes the index of the new item when
\* as_active is True and stays what it was otherwise.
C30_AppendAtEnd ==
    [][call'.op = "append" =>
        /\ connections' = Append(connections, call'.item[1])
        /\ SubSeq(connections', 1, Len(connections)) = connections
        /\ IF call'.as_active = "True"
           THEN active' = Len(connections') - 1
           ELSE active' = active]_vars

\* a second profile was appended as the active one
C30_Witness ==
    /\ call.op = "append"
    /\ call.as_active = "True"
    /\ Len(connections) = 2
    /\ connections[2] = call.item[1]
    /\ connections[1] # connections[2]
    /\ active = 1

-----------------------------------------------------------------------------
(* going back from the message-loading screen *)

\* message_load has run and the operator chose "Back to mail message
\* management": the handler returned None and the loop goes on
C31_WentBack ==
    /\ status = "running"
    /\ current_command = "message_load"
    /\ next_command = None

\* C31: after "Back to mail message management" was chosen in message_load,
\* the next command the loop executes is message_manage, whatever failed
\* loads and Retry choices came before.
C31_BackToParent ==
    [][C31_WentBack => current_command' = "message_manage"]_vars

-----------------------------------------------------------------------------
(* main_menu in the command stack *)

\* C32: main_menu is in command_stack at most once, at the bottom, and the
\* bottom of a stack that is not empty is main_menu; no command returns
\* main_menu as the command to run next.
C32_MainMenuAtBottom ==
    /\ \A k \in DOMAIN command_stack : (command_stack[k] = "main_menu") <=> (k = 1)
    /\ next_command # "main_menu"

\* main_menu was popped off the stack, ran again and is at the bottom again
C32_Witness ==
    /\ status = "running"
    /\ current_command = "main_menu"
    /\ popped
    /\ command_stack = <<"main_menu">>
    /\ next_command = "message_manage"

-----------------------------------------------------------------------------
(* server_add: early returns *)

\* the screens of the last step, which only a call that passed every step
\* shows: 11 of 11, or 12 of 12 after the question about shared credentials
C33_LastStep == {_step_base(num_steps, num_steps), _step_base(num_steps + 1, num_steps + 1)}

\* the screens of the steps that return early: the SMTP host, the SMTP port,
\* the IMAP host, the IMAP port, the sender
C33_EarlyReturn ==
    {_step_base(k, num_steps) : k \in {1, 2, 5, 6, 9}} \cup {_step_base(10, num_steps + 1)}

\* C33: a server_add that returned early leaves the server list and the
\* active index as they were; one that passed every step appends exactly one
\* profile, made of what was entered; either way it returns None and the
\* loop goes back to server_manage.
C33_AbortKeepsList ==
    /\ [][current_command' = "server_add" =>
            /\ next_command' = None
            /\ status' = "running"
            /\ screen'.text \in C33_LastStep \cup C33_EarlyReturn
            /\ screen'.text \in C33_EarlyReturn =>
                  /\ connections' = connections
                  /\ active' = active
            /\ screen'.text \in C33_LastStep =>
                  /\ Len(connections') = Len(connections) + 1
                  /\ SubSeq(connections', 1, Len(connections)) = connections
                  /\ active' \in {active, Len(connections)}
                  /\ LET new == connections'[Len(connections')]
                     IN  /\ ~IsBlank(new.smtp.host) /\ new.smtp.port > 0
                         /\ ~IsBlank(new.imap.host) /\ new.imap.port > 0
                         /\ ~IsBlank(new.sender.name)
                         /\ ~IsBlank(new.sender.addresses[1])]_vars
    /\ [][(current_command = "server_add" /\ status = "running") =>
            current_command' = "server_manage"]_vars

\* with a profile stored and active, a second server_add returned at the
\* sender step and the profile is still the only one
C33_Witness ==
    /\ current_command = "server_add"
    /\ screen.text = _step_base(10, num_steps + 1)
    /\ Len(connections) = 1
    /\ active = 0
    /\ next_command = None

-----------------------------------------------------------------------------
(* recipients_clear and message_clear *)

\* C34: recipients_clear leaves the recipient registry empty and the server
\* list, the active index and the current message as they were, and the
\* dispatch that follows it sends to nobody; message_clear puts a fresh empty
\* message in place of the current one and leaves the rest as it was.
C34_ClearFrame ==
    /\ [][call'.op = "recipients_clear" =>
            /\ recipients' = <<>>
            /\ call'.raised = None
            /\ connections' = connections
            /\ active' = active
            /\ message' = message]_vars
    /\ [][(call.op = "recipients_clear" /\ call'.op = "send_message") =>
            \A k \in DOMAIN dispatch'.events : dispatch'.events[k].op # "send"]_vars
    /\ [][call'.op = "message_clear" =>
            /\ message' = EmailMessage
            /\ call'.raised = None
            /\ connections' = connections
            /\ active' = active
            /\ recipients' = recipients]_vars

\* the registry was cleared, and the dispatch after that went through the
\* greeting over the stored profile with the loaded message and sent nothing
C34_Witness ==
    /\ call.op = "send_message"
    /\ recipients = <<>>
    /\ dispatch.status = "OK"
    /\ connections # <<>>
    /\ message = message_load_file(EmailMessage, "mail.eml").message

=============================================================================
